---- MODULE Spec2Model ----
(***************************************************************************)
(* Toast notification lifecycle: one instance of the hook useToastAnimation *)
(* (src/src/hooks/useToastAnimation.ts) driven by the browser's animation  *)
(* frames, by the pointer (hover enter / leave), by the close button and    *)
(* by its owner (re-render, unmount).                                       *)
(*                                                                         *)
(* Time is the millisecond clock performance.now(); the frame timestamp     *)
(* handed to a requestAnimationFrame callback is the clock at that frame.   *)
(* An optional value (number | null) is the empty sequence for null and a   *)
(* one-element sequence otherwise.                                          *)
(***************************************************************************)
EXTENDS Integers, Sequences, FiniteSets, TLC

\* ------------------------------------------------------------ constants

DEFAULT_DURATION == 3000
EXIT_ANIMATION_DURATION == 300

\* ------------------------------------------------------------ bounds

\* The clock advances in steps of Quantum ms; a frame is due every
\* FrameQuanta steps; the clock stops at MaxNow.
Quantum == 50
FrameQuanta == 2
MaxNow == 1000

\* The observer counts the pauses of a run up to MaxCycles.
MaxCycles == 2

MaxNowDefault == 3700  \* the clock's end in the run with the default duration
MaxLoops == 3          \* loops an owner re-render may bring the composed hook to
MaxTimers == 3         \* timers a client of createRAFTimer creates
MaxNowTimers == 500    \* the clock's end in the runs of the timers
MaxToasts == 3         \* toasts the provider's list is filled to
MaxDateNow == 2        \* the end of the millisecond clock in the provider's runs
FramePeriod == FrameQuanta * Quantum

\* The durations an instance is constructed with (toast.duration).
Durations == {-100, 0, 100, 200}
ToastIds == {"toast-1", "toast-2"}

\* ------------------------------------------------------------ helpers

Null == <<>>
Some(x) == <<x>>
Val(r) == r[1]

\* ------------------------------------------------------------ state

VARIABLES
    duration,       \* props.duration
    toastId,        \* props.toastId
    isVisible,      \* useState(false)
    phaseRef,       \* useRef<Phase>("entering")
    rafRef,         \* useRef<number | null>(null): handle of the last request
    startRef,       \* useRef<number | null>(null)
    elapsedRef,     \* useRef(0)
    exitStartRef,   \* useRef<number | null>(null)
    removedRef,     \* useRef(false)
    now,            \* performance.now()
    nextFrame,      \* the time the browser's next animation frame is due
    rafScheduled,   \* handles of the frame callbacks requested and not cancelled
    mounted,        \* the component is mounted (its effect is live)
    onRemoveCalls,  \* the calls of props.onRemove so far: [id, at]
    obs             \* observations of the run, read by the properties only

\* The state of the hook built on createRAFTimer, and of createRAFTimer.
VARIABLES
    isPaused,          \* useState(false)
    startTimeRef,      \* useRef<number>(0)
    pausedTimeRef,     \* useRef<number>(0)
    removeTimeoutRef,  \* useRef<number | null>(null)
    mountTimerRef,     \* useRef<number | null>(null)
    wasPausedRef,      \* useRef(false)
    pauseCleanup,      \* the pause/resume effect returned a cancel function
    rafTimers,         \* the pending animate callbacks, in the order requested
    timerObs           \* observations of the timers, read by the properties only

timerVars == <<isPaused, startTimeRef, pausedTimeRef, removeTimeoutRef,
               mountTimerRef, wasPausedRef, pauseCleanup, rafTimers, timerObs>>

\* The state of ToastProvider.
VARIABLES
    toasts,         \* useState<Toast[]>([]) with every queued update applied
    renderedToasts, \* the toasts of the last render, which addToast closes over
    dateNow         \* Date.now()

providerVars == <<toasts, renderedToasts, dateNow>>

\* The state of the hooks that drive their own frame loop.
hookVars == <<phaseRef, rafRef, startRef, elapsedRef, exitStartRef, removedRef,
              rafScheduled>>

vars == <<duration, toastId, isVisible, phaseRef, rafRef, startRef, elapsedRef,
          exitStartRef, removedRef, now, nextFrame, rafScheduled, mounted,
          onRemoveCalls, obs, timerVars, providerVars>>

Phases == {"entering", "running", "paused", "exiting"}

\* requestAnimationFrame returns a handle no pending or remembered request has.
requestAnimationFrame(used) ==
    CHOOSE h \in 1..(Cardinality(used) + 1) : h \notin used

Handles(ref) == IF ref = Null THEN {} ELSE {Val(ref)}

\* cancelAnimationFrame(handle): the request, if still pending, is dropped.
cancelAnimationFrame(pending, ref) == pending \ Handles(ref)

\* What the properties observe of a run (no handler reads it).
ObsInit ==
    [ runningTotal |-> 0,      \* clock time spent with phaseRef = "running"
      pausedTotal  |-> 0,      \* clock time spent with phaseRef = "paused"
      cycles       |-> 0,      \* accepted hover-enter events, up to MaxCycles
      enterDropped |-> FALSE,  \* a hover-enter found "running" and did not pause
      closeAt      |-> Null,   \* the time of the accepted manual close
      closeFrom    |-> Null,   \* the phase the accepted manual close found
      exitingSince |-> Null,   \* the time phaseRef became "exiting"
      unmountedAt  |-> Null,   \* the time of the unmount
      callsAtUnmount |-> 0,    \* onRemove calls made before the unmount began
      lastIgnored  |-> Null,   \* the last event a handler ignored: [ev, phase]
      timerCalls   |-> {} ]    \* the kinds of useToastTimer calls made so far

\* What the properties observe of the timers made by createRAFTimer: per
\* timer, in the order of creation,
\*   ref, delay        the ref and the delay it was created with
\*   fired             how often its callback has run
\*   early             its callback ran less than delay ms after the creation
\*   cancelled         its cancel function was called before its callback ran
\*   firedAfterCancel  its callback ran although it had been cancelled
\* (kept only when perTimer is set), whether a cancel function ever cancelled
\* a timer created later, when startExitAnimation was first called, and which
\* events arrived after that.
TimerObsInit ==
    [ perTimer       |-> FALSE,
      made           |-> <<>>,
      cancelledLater |-> FALSE,
      exitingSince   |-> Null,
      afterExit      |-> {},
      pauses         |-> 0 ]   \* hover-enter events that paused the hook

\* The refs and state of the hook built on createRAFTimer after the first
\* render, before its effects have run; no timer exists.
TimersInit ==
    /\ isPaused = FALSE
    /\ startTimeRef = 0
    /\ pausedTimeRef = 0
    /\ removeTimeoutRef = Null
    /\ mountTimerRef = Null
    /\ wasPausedRef = FALSE
    /\ pauseCleanup = FALSE
    /\ rafTimers = <<>>
    /\ timerObs = TimerObsInit

\* ToastProvider after its first render.
ProviderInit ==
    /\ toasts = <<>>
    /\ renderedToasts = <<>>
    /\ dateNow = 0

\* The observation of a phase change made by a handler at the present clock.
ObsPhase(o, newPhase) ==
    IF newPhase = "exiting" /\ phaseRef # "exiting"
    THEN [o EXCEPT !.exitingSince = Some(now)]
    ELSE o

\* ------------------------------------------------------------ Init

\* The state after the first render and the run of the mount effect
\* (useToastAnimation.ts:46-54, 113).
Init ==
    /\ duration \in Durations
    /\ toastId \in ToastIds
    /\ isVisible = FALSE
    /\ phaseRef = "entering"
    /\ rafRef = Some(requestAnimationFrame({}))
    /\ rafScheduled = {requestAnimationFrame({})}
    /\ startRef = Null
    /\ elapsedRef = 0
    /\ exitStartRef = Null
    /\ removedRef = FALSE
    /\ now = 0
    /\ nextFrame \in {k * Quantum : k \in 1..FrameQuanta}
    /\ mounted = TRUE
    /\ onRemoveCalls = <<>>
    /\ obs = ObsInit
    /\ TimersInit
    /\ ProviderInit

\* ------------------------------------------------------------ the loop

\* A slip in setPhase: "running" does not show the toast.
setPhase_noShow(next) ==
    /\ phaseRef' = next
    /\ isVisible' = IF next = "exiting" THEN FALSE ELSE isVisible

\* setPhase(next): the phase, and the visibility that follows it.
setPhase(next) ==
    /\ phaseRef' = next
    /\ isVisible' = IF next = "running" THEN TRUE
                    ELSE IF next = "exiting" THEN FALSE
                    ELSE isVisible

\* A slip in handleRunning: the exit window is started at the start of the
\* running segment instead of at the present frame.
handleRunning_exitFromStart(t) ==
    LET start == IF startRef = Null THEN t ELSE Val(startRef)
        total == elapsedRef + (t - start)
    IN  IF total >= duration
        THEN /\ startRef' = Null
             /\ exitStartRef' = Some(start)
             /\ setPhase("exiting")
        ELSE /\ startRef' = Some(start)
             /\ UNCHANGED <<exitStartRef, phaseRef, isVisible>>

\* handleRunning(now): starts the running segment if none is tracked and
\* moves to "exiting" once the accounted time reaches the duration.
handleRunning(t) ==
    LET start == IF startRef = Null THEN t ELSE Val(startRef)
        total == elapsedRef + (t - start)
    IN  IF total >= duration
        THEN /\ startRef' = Null
             /\ exitStartRef' = Some(t)
             /\ setPhase("exiting")
        ELSE /\ startRef' = Some(start)
             /\ UNCHANGED <<exitStartRef, phaseRef, isVisible>>

\* A slip in handleExit: the removed flag is neither read nor set.
handleExit_noGuard(t) ==
    IF /\ exitStartRef # Null
       /\ t - Val(exitStartRef) >= EXIT_ANIMATION_DURATION
    THEN /\ removedRef' = removedRef
         /\ onRemoveCalls' = Append(onRemoveCalls, [id |-> toastId, at |-> t])
    ELSE UNCHANGED <<removedRef, onRemoveCalls>>

\* A slip in handleExit: the exit window is not waited for.
handleExit_noWindow(t) ==
    IF /\ exitStartRef # Null
       /\ t - Val(exitStartRef) >= 0
       /\ ~removedRef
    THEN /\ removedRef' = TRUE
         /\ onRemoveCalls' = Append(onRemoveCalls, [id |-> toastId, at |-> t])
    ELSE UNCHANGED <<removedRef, onRemoveCalls>>

\* handleExit(now): once the exit window has passed, the one onRemove call.
handleExit(t) ==
    IF /\ exitStartRef # Null
       /\ t - Val(exitStartRef) >= EXIT_ANIMATION_DURATION
       /\ ~removedRef
    THEN /\ removedRef' = TRUE
         /\ onRemoveCalls' = Append(onRemoveCalls, [id |-> toastId, at |-> t])
    ELSE UNCHANGED <<removedRef, onRemoveCalls>>

\* A slip in loop: the entering case already counts the duration.
loop_enteringRuns(h, t) ==
    /\ CASE phaseRef \in {"entering", "running"} ->
              /\ handleRunning(t)
              /\ UNCHANGED <<removedRef, onRemoveCalls>>
         [] phaseRef = "paused" ->
              UNCHANGED <<phaseRef, isVisible, startRef, exitStartRef,
                          removedRef, onRemoveCalls>>
         [] phaseRef = "exiting" ->
              /\ handleExit(t)
              /\ UNCHANGED <<phaseRef, isVisible, startRef, exitStartRef>>
    /\ IF ~removedRef'
       THEN LET n == requestAnimationFrame((rafScheduled \ {h}) \cup Handles(rafRef) \cup {h})
            IN  /\ rafRef' = Some(n)
                /\ rafScheduled' = (rafScheduled \ {h}) \cup {n}
       ELSE /\ rafRef' = rafRef
            /\ rafScheduled' = rafScheduled \ {h}
    /\ UNCHANGED elapsedRef

\* A slip in loop: the paused case falls through to the running case.
loop_pausedRuns(h, t) ==
    /\ CASE phaseRef = "entering" ->
              /\ setPhase("running")
              /\ UNCHANGED <<startRef, exitStartRef, removedRef, onRemoveCalls>>
         [] phaseRef \in {"running", "paused"} ->
              /\ handleRunning(t)
              /\ UNCHANGED <<removedRef, onRemoveCalls>>
         [] phaseRef = "exiting" ->
              /\ handleExit(t)
              /\ UNCHANGED <<phaseRef, isVisible, startRef, exitStartRef>>
    /\ IF ~removedRef'
       THEN LET n == requestAnimationFrame((rafScheduled \ {h}) \cup Handles(rafRef) \cup {h})
            IN  /\ rafRef' = Some(n)
                /\ rafScheduled' = (rafScheduled \ {h}) \cup {n}
       ELSE /\ rafRef' = rafRef
            /\ rafScheduled' = rafScheduled \ {h}
    /\ UNCHANGED elapsedRef

\* loop(now): the frame callback with handle h; it requests the next frame
\* unless the toast has been removed.
loop(h, t) ==
    /\ CASE phaseRef = "entering" ->
              /\ setPhase("running")
              /\ UNCHANGED <<startRef, exitStartRef, removedRef, onRemoveCalls>>
         [] phaseRef = "running" ->
              /\ handleRunning(t)
              /\ UNCHANGED <<removedRef, onRemoveCalls>>
         [] phaseRef = "paused" ->
              UNCHANGED <<phaseRef, isVisible, startRef, exitStartRef,
                          removedRef, onRemoveCalls>>
         [] phaseRef = "exiting" ->
              /\ handleExit(t)
              /\ UNCHANGED <<phaseRef, isVisible, startRef, exitStartRef>>
    /\ IF ~removedRef'
       THEN LET n == requestAnimationFrame((rafScheduled \ {h}) \cup Handles(rafRef) \cup {h})
            IN  /\ rafRef' = Some(n)
                /\ rafScheduled' = (rafScheduled \ {h}) \cup {n}
       ELSE /\ rafRef' = rafRef
            /\ rafScheduled' = rafScheduled \ {h}
    /\ UNCHANGED elapsedRef

\* A frame is due and a callback is pending: the browser runs it with the
\* frame's timestamp.
Tick ==
    /\ now >= nextFrame
    /\ \E h \in rafScheduled :
          /\ loop(h, now)
          /\ obs' = ObsPhase(obs, phaseRef')
    /\ nextFrame' = now + FramePeriod
    /\ UNCHANGED <<timerVars, providerVars, duration, toastId, now, mounted>>

\* A frame is due and no callback is pending.
IdleFrame ==
    /\ now >= nextFrame
    /\ rafScheduled = {}
    /\ nextFrame' = now + FramePeriod
    /\ UNCHANGED <<timerVars, providerVars, duration, toastId, isVisible, phaseRef, rafRef, startRef,
                   elapsedRef, exitStartRef, removedRef, now, rafScheduled,
                   mounted, onRemoveCalls, obs>>

\* The clock advances, never past a frame that is due.
Advance ==
    /\ now < nextFrame
    /\ now + Quantum <= MaxNow
    /\ now' = now + Quantum
    /\ obs' = [obs EXCEPT
                 !.runningTotal = IF phaseRef = "running" THEN @ + Quantum ELSE @,
                 !.pausedTotal = IF phaseRef = "paused" THEN @ + Quantum ELSE @]
    /\ UNCHANGED <<timerVars, providerVars, duration, toastId, isVisible, phaseRef, rafRef, startRef,
                   elapsedRef, exitStartRef, removedRef, nextFrame, rafScheduled,
                   mounted, onRemoveCalls>>

\* ------------------------------------------------------------ events

\* A slip in handleMouseEnter: the phase is not looked at.
handleMouseEnter_noPhaseGuard ==
    IF startRef = Null
    THEN UNCHANGED <<phaseRef, startRef, elapsedRef>>
    ELSE /\ elapsedRef' = elapsedRef + (now - Val(startRef))
         /\ startRef' = Null
         /\ phaseRef' = "paused"

\* handleMouseEnter: pauses a tracked running segment.
handleMouseEnter ==
    IF phaseRef # "running" \/ startRef = Null
    THEN UNCHANGED <<phaseRef, startRef, elapsedRef>>
    ELSE /\ elapsedRef' = elapsedRef + (now - Val(startRef))
         /\ startRef' = Null
         /\ phaseRef' = "paused"

\* A slip in handleMouseLeave: the phase is not looked at.
handleMouseLeave_noGuard ==
    phaseRef' = "running"

\* handleMouseLeave: resumes; the next loop run starts the new segment.
handleMouseLeave ==
    IF phaseRef # "paused"
    THEN UNCHANGED phaseRef
    ELSE phaseRef' = "running"

\* A slip in handleClose: a close while exiting starts the window again.
handleClose_noGuard ==
    /\ exitStartRef' = Some(now)
    /\ phaseRef' = "exiting"
    /\ isVisible' = FALSE

\* A slip in handleClose: the toast is not hidden.
handleClose_noHide ==
    IF phaseRef = "exiting"
    THEN UNCHANGED <<phaseRef, exitStartRef, isVisible>>
    ELSE /\ exitStartRef' = Some(now)
         /\ phaseRef' = "exiting"
         /\ isVisible' = isVisible

\* A slip in handleClose: the exit window is not started.
handleClose_noExitStart ==
    IF phaseRef = "exiting"
    THEN UNCHANGED <<phaseRef, exitStartRef, isVisible>>
    ELSE /\ exitStartRef' = exitStartRef
         /\ phaseRef' = "exiting"
         /\ isVisible' = FALSE

\* handleClose: starts the exit window at once.
handleClose ==
    IF phaseRef = "exiting"
    THEN UNCHANGED <<phaseRef, exitStartRef, isVisible>>
    ELSE /\ exitStartRef' = Some(now)
         /\ phaseRef' = "exiting"
         /\ isVisible' = FALSE

\* The observation of a hover-enter event.
ObsEnter(o) ==
    [o EXCEPT
       !.cycles = IF phaseRef = "running" /\ phaseRef' = "paused"
                     /\ @ < MaxCycles
                  THEN @ + 1 ELSE @,
       !.enterDropped = @ \/ (phaseRef = "running" /\ phaseRef' # "paused")]

\* The observation of a manual close.
ObsClose(o) ==
    IF phaseRef # "exiting"
    THEN [ObsPhase(o, phaseRef') EXCEPT !.closeAt = Some(now),
                                         !.closeFrom = Some(phaseRef)]
    ELSE o

\* The observation of an event the handler ignored (the phase is as before).
ObsIgnored(o, event) ==
    IF phaseRef' = phaseRef
    THEN [o EXCEPT !.lastIgnored = Some([ev |-> event, phase |-> phaseRef])]
    ELSE o

\* The class ToastItem gives the element.
ClassName == IF isVisible THEN "toast-enter" ELSE "toast-exit"

\* The pointer enters the mounted element.
HoverEnter ==
    /\ mounted
    /\ handleMouseEnter
    /\ obs' = ObsEnter(obs)
    /\ UNCHANGED <<timerVars, providerVars, duration, toastId, isVisible, rafRef, exitStartRef, removedRef,
                   now, nextFrame, rafScheduled, mounted, onRemoveCalls>>

\* The pointer leaves the mounted element.
HoverLeave ==
    /\ mounted
    /\ handleMouseLeave
    /\ UNCHANGED <<timerVars, providerVars, duration, toastId, isVisible, rafRef, startRef, elapsedRef,
                   exitStartRef, removedRef, now, nextFrame, rafScheduled,
                   mounted, onRemoveCalls, obs>>

\* The close button of the mounted element is clicked.
Close ==
    /\ mounted
    /\ handleClose
    /\ obs' = ObsClose(obs)
    /\ UNCHANGED <<timerVars, providerVars, duration, toastId, rafRef, startRef, elapsedRef, removedRef,
                   now, nextFrame, rafScheduled, mounted, onRemoveCalls>>

\* The same three events, with the ignored ones observed.
HoverEnterSeen ==
    /\ mounted
    /\ handleMouseEnter
    /\ obs' = ObsIgnored(ObsEnter(obs), "enter")
    /\ UNCHANGED <<timerVars, providerVars, duration, toastId, isVisible, rafRef, exitStartRef, removedRef,
                   now, nextFrame, rafScheduled, mounted, onRemoveCalls>>

HoverLeaveSeen ==
    /\ mounted
    /\ handleMouseLeave
    /\ obs' = ObsIgnored(obs, "leave")
    /\ UNCHANGED <<timerVars, providerVars, duration, toastId, isVisible, rafRef, startRef, elapsedRef,
                   exitStartRef, removedRef, now, nextFrame, rafScheduled,
                   mounted, onRemoveCalls>>

CloseSeen ==
    /\ mounted
    /\ handleClose
    /\ obs' = ObsIgnored(ObsClose(obs), "close")
    /\ UNCHANGED <<timerVars, providerVars, duration, toastId, rafRef, startRef, elapsedRef, removedRef,
                   now, nextFrame, rafScheduled, mounted, onRemoveCalls>>

\* ------------------------------------------------------------ the effect

\* A slip in the cleanup: the pending frame is left requested.
effectCleanup_noCancel ==
    rafScheduled' = rafScheduled

\* The cleanup of the effect: the last requested frame is cancelled.
effectCleanup ==
    rafScheduled' = cancelAnimationFrame(rafScheduled, rafRef)

\* The owner re-renders with a new onRemove function (ToastProvider passes a
\* fresh removeToast every render): the effect is cleaned up and run again.
Rerender ==
    /\ mounted
    /\ LET pending == cancelAnimationFrame(rafScheduled, rafRef)
           n == requestAnimationFrame(pending \cup Handles(rafRef))
       IN  /\ rafRef' = Some(n)
           /\ rafScheduled' = pending \cup {n}
    /\ UNCHANGED <<timerVars, providerVars, duration, toastId, isVisible, phaseRef, startRef, elapsedRef,
                   exitStartRef, removedRef, now, nextFrame, mounted,
                   onRemoveCalls, obs>>

\* The owner unmounts the component: the effect is cleaned up.
Unmount ==
    /\ mounted
    /\ mounted' = FALSE
    /\ effectCleanup
    /\ obs' = [obs EXCEPT !.unmountedAt = Some(now),
                          !.callsAtUnmount = Len(onRemoveCalls)]
    /\ UNCHANGED <<timerVars, providerVars, duration, toastId, isVisible, phaseRef, rafRef, startRef,
                   elapsedRef, exitStartRef, removedRef, now, nextFrame,
                   onRemoveCalls>>

Next ==
    \/ Tick
    \/ IdleFrame
    \/ Advance
    \/ HoverEnter
    \/ HoverLeave
    \/ Close
    \/ Rerender
    \/ Unmount

Spec == Init /\ [][Next]_vars

\* The same program with the ignored events observed.
NextEvents ==
    \/ Tick
    \/ IdleFrame
    \/ Advance
    \/ HoverEnterSeen
    \/ HoverLeaveSeen
    \/ CloseSeen
    \/ Rerender
    \/ Unmount

\* One toast, with a duration that expires at once or after two frames.
InitEvents ==
    /\ Init
    /\ toastId = "toast-1"
    /\ duration \in {0, 200}

SpecEvents == InitEvents /\ [][NextEvents]_vars

\* The duration parameter with its default: an undefined toast.duration
\* becomes DEFAULT_DURATION.
DurationOrDefault(prop) ==
    IF prop = Null THEN DEFAULT_DURATION ELSE Val(prop)

\* The state after construction for a toast whose duration is undefined.
InitDefault ==
    /\ duration = DurationOrDefault(Null)
    /\ toastId \in ToastIds
    /\ isVisible = FALSE
    /\ phaseRef = "entering"
    /\ rafRef = Some(requestAnimationFrame({}))
    /\ rafScheduled = {requestAnimationFrame({})}
    /\ startRef = Null
    /\ elapsedRef = 0
    /\ exitStartRef = Null
    /\ removedRef = FALSE
    /\ now = 0
    /\ nextFrame \in {k * Quantum : k \in 1..FrameQuanta}
    /\ mounted = TRUE
    /\ onRemoveCalls = <<>>
    /\ obs = ObsInit
    /\ TimersInit
    /\ ProviderInit

\* The clock advances, never past a frame that is due, to the end of the
\* run with the default duration.
AdvanceDefault ==
    /\ now < nextFrame
    /\ now + Quantum <= MaxNowDefault
    /\ now' = now + Quantum
    /\ obs' = [obs EXCEPT
                 !.runningTotal = IF phaseRef = "running" THEN @ + Quantum ELSE @,
                 !.pausedTotal = IF phaseRef = "paused" THEN @ + Quantum ELSE @]
    /\ UNCHANGED <<timerVars, providerVars, duration, toastId, isVisible, phaseRef, rafRef, startRef,
                   elapsedRef, exitStartRef, removedRef, nextFrame, rafScheduled,
                   mounted, onRemoveCalls>>

\* The toast with the default duration, left alone by its user and owner.
NextDefault ==
    \/ Tick
    \/ IdleFrame
    \/ AdvanceDefault

SpecDefault == InitDefault /\ [][NextDefault]_vars

\* A timestamp read against a clock set back by one quantum.
SetBack(ref) == IF ref = Null THEN Null ELSE Some(Val(ref) - Quantum)

\* The clock of a run without end.  The handlers read the clock only in
\* differences (now - startRef, now - exitStartRef), so once the clock shows
\* MaxNow it is kept there and every stored timestamp is set back instead.
\* The clock is not followed after the removal.
AdvanceLive ==
    /\ now < nextFrame
    /\ ~removedRef
    /\ IF now + Quantum <= MaxNow
       THEN /\ now' = now + Quantum
            /\ UNCHANGED <<nextFrame, startRef, exitStartRef, obs>>
       ELSE /\ now' = now
            /\ nextFrame' = nextFrame - Quantum
            /\ startRef' = SetBack(startRef)
            /\ exitStartRef' = SetBack(exitStartRef)
            /\ obs' = [obs EXCEPT !.closeAt = SetBack(@),
                                  !.exitingSince = SetBack(@)]
    /\ UNCHANGED <<timerVars, providerVars, duration, toastId, isVisible, phaseRef, rafRef, elapsedRef,
                   removedRef, rafScheduled, mounted, onRemoveCalls>>

\* The toast that is never unmounted.
NextLive ==
    \/ Tick
    \/ AdvanceLive
    \/ HoverEnter
    \/ HoverLeave
    \/ Close
    \/ Rerender

\* Frames keep coming and the clock keeps running: a due frame is run, and
\* between frames time passes.
LiveSpec ==
    /\ Init
    /\ [][NextLive]_vars
    /\ WF_vars(Tick)
    /\ WF_vars(AdvanceLive)

\* ------------------------------------------------------------ the composed hook
\* useToastAnimation built from useToastTimer, useToastPhase and
\* useToastVisibility.  Its refs are the same as above; rafRef holds rafId,
\* the first request of the effect's latest run, and rafScheduled the pending
\* requests of every loop that is running.

\* A slip in startTimer: it records the start also over a tracked one.
startTimer_overwrites(start, t) == Some(t)

\* useToastTimer
startTimer(start, t) == IF start = Null THEN Some(t) ELSE start

getElapsedTime(start, t) ==
    IF start = Null THEN elapsedRef ELSE elapsedRef + (t - Val(start))

isTimerExpired(start, t) == getElapsedTime(start, t) >= duration

isExitExpired(exitStart, t) ==
    /\ exitStart # Null
    /\ t - Val(exitStart) >= EXIT_ANIMATION_DURATION

\* useToastPhase
canPause == phaseRef = "running"
canResume == phaseRef = "paused"
canClose == phaseRef # "exiting"

\* What the callbacks of one frame read and write, and the requests they make.
LoopState ==
    [ phase     |-> phaseRef,
      visible   |-> isVisible,
      start     |-> startRef,
      exitStart |-> exitStartRef,
      removed   |-> removedRef,
      calls     |-> onRemoveCalls,
      requests  |-> 0 ]

\* loop(now) of the composed hook, run on the state st the frame has reached.
composedLoop(st, t) ==
    LET again == [st EXCEPT !.requests = @ + 1]
    IN  CASE st.phase = "paused" -> again
          [] st.phase = "entering" ->
               [again EXCEPT !.phase = "running", !.visible = TRUE]
          [] st.phase = "running" ->
               LET start == startTimer(st.start, t)
               IN  IF isTimerExpired(start, t)
                   THEN [again EXCEPT !.start = start,
                                      !.phase = "exiting",
                                      !.visible = FALSE,
                                      !.exitStart = Some(t)]
                   ELSE [again EXCEPT !.start = start]
          [] st.phase = "exiting" ->
               IF isExitExpired(st.exitStart, t)
               THEN IF ~st.removed
                    THEN [st EXCEPT !.removed = TRUE,
                                    !.calls = Append(@, [id |-> toastId, at |-> t])]
                    ELSE st
               ELSE IF ~st.removed THEN again ELSE st

\* The k callbacks pending at a frame, run one after the other.
RECURSIVE RunLoops(_, _, _)
RunLoops(st, k, t) ==
    IF k = 0 THEN st ELSE RunLoops(composedLoop(st, t), k - 1, t)

\* The k smallest handles outside avoid.
FreshHandles(k, avoid) ==
    { h \in 1..(k + Cardinality(avoid)) :
        /\ h \notin avoid
        /\ Cardinality({g \in 1..h : g \notin avoid}) <= k }

\* A frame of the composed hook: every pending callback runs.  A change of
\* isVisible renders the mounted component again, and since timer, phase and
\* visibility are new objects in every render, the effect is cleaned up
\* (rafId is cancelled) and run again (a new loop is requested).
TickComposed ==
    /\ now >= nextFrame
    /\ rafScheduled # {}
    /\ LET st == RunLoops(LoopState, Cardinality(rafScheduled), now)
           rendered == mounted /\ st.visible # isVisible
       IN  /\ phaseRef' = st.phase
           /\ isVisible' = st.visible
           /\ startRef' = st.start
           /\ exitStartRef' = st.exitStart
           /\ removedRef' = st.removed
           /\ onRemoveCalls' = st.calls
           /\ IF rendered
              THEN /\ rafScheduled' = FreshHandles(st.requests + 1, {})
                   /\ rafRef' = Some(st.requests + 1)
              ELSE /\ rafScheduled' = FreshHandles(st.requests, Handles(rafRef))
                   /\ rafRef' = rafRef
           /\ obs' = ObsPhase(obs, st.phase)
    /\ nextFrame' = now + FramePeriod
    /\ UNCHANGED <<timerVars, providerVars, duration, toastId, elapsedRef, now, mounted>>

\* timer.pauseTimer and phase.setPhase("paused"), if the phase allows.
composedMouseEnter ==
    IF ~canPause
    THEN UNCHANGED <<phaseRef, startRef, elapsedRef>>
    ELSE /\ elapsedRef' = getElapsedTime(startRef, now)
         /\ startRef' = Null
         /\ phaseRef' = "paused"

composedMouseLeave ==
    IF ~canResume
    THEN UNCHANGED phaseRef
    ELSE phaseRef' = "running"

\* handleClose of the composed hook; hiding a visible toast renders the
\* component again, which runs the effect again.
composedClose ==
    IF ~canClose
    THEN UNCHANGED <<phaseRef, isVisible, exitStartRef, rafRef, rafScheduled>>
    ELSE /\ phaseRef' = "exiting"
         /\ isVisible' = FALSE
         /\ exitStartRef' = Some(now)
         /\ IF isVisible
            THEN LET pending == cancelAnimationFrame(rafScheduled, rafRef)
                     n == requestAnimationFrame(pending \cup Handles(rafRef))
                 IN  /\ rafRef' = Some(n)
                     /\ rafScheduled' = pending \cup {n}
            ELSE UNCHANGED <<rafRef, rafScheduled>>

HoverEnterComposed ==
    /\ mounted
    /\ composedMouseEnter
    /\ obs' = ObsEnter(obs)
    /\ UNCHANGED <<timerVars, providerVars, duration, toastId, isVisible, rafRef, exitStartRef, removedRef,
                   now, nextFrame, rafScheduled, mounted, onRemoveCalls>>

HoverLeaveComposed ==
    /\ mounted
    /\ composedMouseLeave
    /\ UNCHANGED <<timerVars, providerVars, duration, toastId, isVisible, rafRef, startRef, elapsedRef,
                   exitStartRef, removedRef, now, nextFrame, rafScheduled,
                   mounted, onRemoveCalls, obs>>

CloseComposed ==
    /\ mounted
    /\ composedClose
    /\ obs' = ObsClose(obs)
    /\ UNCHANGED <<timerVars, providerVars, duration, toastId, startRef, elapsedRef, removedRef,
                   now, nextFrame, mounted, onRemoveCalls>>

\* The cleanup of the composed effect: rafId, the effect's first request, is
\* cancelled.
composedCleanup ==
    rafScheduled' = cancelAnimationFrame(rafScheduled, rafRef)

\* The owner renders the component again: the effect is cleaned up and run
\* again.  The loop of the earlier run goes on if its first frame has run.
RerenderComposed ==
    /\ mounted
    /\ Cardinality(rafScheduled) < MaxLoops
    /\ LET pending == cancelAnimationFrame(rafScheduled, rafRef)
           n == requestAnimationFrame(pending \cup Handles(rafRef))
       IN  /\ rafRef' = Some(n)
           /\ rafScheduled' = pending \cup {n}
    /\ UNCHANGED <<timerVars, providerVars, duration, toastId, isVisible, phaseRef, startRef, elapsedRef,
                   exitStartRef, removedRef, now, nextFrame, mounted,
                   onRemoveCalls, obs>>

\* The owner unmounts the component.
UnmountComposed ==
    /\ mounted
    /\ mounted' = FALSE
    /\ composedCleanup
    /\ obs' = [obs EXCEPT !.unmountedAt = Some(now),
                          !.callsAtUnmount = Len(onRemoveCalls)]
    /\ UNCHANGED <<timerVars, providerVars, duration, toastId, isVisible, phaseRef, rafRef, startRef,
                   elapsedRef, exitStartRef, removedRef, now, nextFrame,
                   onRemoveCalls>>

NextComposed ==
    \/ TickComposed
    \/ IdleFrame
    \/ Advance
    \/ HoverEnterComposed
    \/ HoverLeaveComposed
    \/ CloseComposed
    \/ RerenderComposed
    \/ UnmountComposed

\* One toast, with a duration that expires at once or after two frames.
InitComposed ==
    /\ Init
    /\ toastId = "toast-1"
    /\ duration \in {0, 200}

SpecComposed == InitComposed /\ [][NextComposed]_vars

\* ------------------------------------------------------------ createRAFTimer

TimerRefs == {"removeTimeoutRef", "mountTimerRef"}
TimerDelays == {0, 250}

\* What a frame's callbacks read and write: the refs, the callbacks of this
\* frame still to run (todo), the requests made for the next frame (queue),
\* and what the timers' callbacks change.
World ==
    [ removeTimeoutRef |-> removeTimeoutRef,
      mountTimerRef    |-> mountTimerRef,
      todo             |-> <<>>,
      queue            |-> rafTimers,
      visible          |-> isVisible,
      calls            |-> onRemoveCalls,
      isPaused         |-> isPaused,
      startTimeRef     |-> startTimeRef,
      pausedTimeRef    |-> pausedTimeRef,
      wasPausedRef     |-> wasPausedRef,
      pauseCleanup     |-> pauseCleanup,
      obs              |-> timerObs ]

RefOf(w, ref) ==
    IF ref = "removeTimeoutRef" THEN w.removeTimeoutRef ELSE w.mountTimerRef

SetRef(w, ref, v) ==
    IF ref = "removeTimeoutRef"
    THEN [w EXCEPT !.removeTimeoutRef = v]
    ELSE [w EXCEPT !.mountTimerRef = v]

\* requestAnimationFrame(animate): a handle that no pending request has and
\* no ref remembers.
NewHandle(w) ==
    requestAnimationFrame({w.todo[k].h : k \in DOMAIN w.todo}
                          \cup {w.queue[k].h : k \in DOMAIN w.queue}
                          \cup Handles(w.removeTimeoutRef)
                          \cup Handles(w.mountTimerRef))

\* if (ref.current) { cancelAnimationFrame(ref.current); ref.current = null }
CancelRef(w, ref) ==
    IF RefOf(w, ref) = Null
    THEN w
    ELSE LET h == Val(RefOf(w, ref))
             Keep(r) == r.h # h
         IN  SetRef([w EXCEPT !.todo = SelectSeq(@, Keep),
                              !.queue = SelectSeq(@, Keep)],
                    ref, Null)

\* createRAFTimer({delay, callback, ref}) called at time t.
createRAFTimer(w, delay, callback, ref, t) ==
    LET w1 == CancelRef(w, ref)
        h == NewHandle(w1)
        timer == IF w1.obs.perTimer THEN Len(w1.obs.made) + 1 ELSE 0
    IN  SetRef([w1 EXCEPT
                  !.queue = Append(@, [h |-> h, timer |-> timer, startTime |-> t,
                                       delay |-> delay, callback |-> callback,
                                       ref |-> ref]),
                  !.obs.made = IF w1.obs.perTimer
                               THEN Append(@, [ref |-> ref, delay |-> delay,
                                               fired |-> 0, early |-> FALSE,
                                               cancelled |-> FALSE,
                                               firedAfterCancel |-> FALSE])
                               ELSE @],
               ref, Some(h))

\* removeToast of the hook built on createRAFTimer.
timerRemoveToast(w, t) ==
    createRAFTimer(w, EXIT_ANIMATION_DURATION, "onRemove", "removeTimeoutRef", t)

\* startExitAnimation; its first call is observed.
startExitAnimation(w, t) ==
    createRAFTimer([w EXCEPT !.obs.exitingSince = IF @ = Null THEN Some(t) ELSE @],
                   0, "exit", "removeTimeoutRef", t)

\* The callback of timer r, run at the frame with timestamp t:
\*   "callback"            a client's callback, which changes nothing here
\*   "show"                () => setIsVisible(true)
\*   "startExitAnimation"  startExitAnimation
\*   "exit"                () => { setIsVisible(false); removeToast(); }
\*   "onRemove"            () => onRemove(toastId)
RunCallback(w, r, t) ==
    LET w1 == IF r.timer = 0
              THEN w
              ELSE [w EXCEPT !.obs.made[r.timer].fired = @ + 1,
                             !.obs.made[r.timer].early =
                                 @ \/ t - r.startTime < r.delay,
                             !.obs.made[r.timer].firedAfterCancel =
                                 @ \/ w.obs.made[r.timer].cancelled]
    IN  CASE r.callback = "callback" -> w1
          [] r.callback = "show" -> [w1 EXCEPT !.visible = TRUE]
          [] r.callback = "startExitAnimation" -> startExitAnimation(w1, now)
          [] r.callback = "exit" ->
               timerRemoveToast([w1 EXCEPT !.visible = FALSE], now)
          [] r.callback = "onRemove" ->
               [w1 EXCEPT !.calls = Append(@, [id |-> toastId, at |-> t])]

\* A slip in animate: the handle of the next request is not stored in the ref.
animate_refNotStored(w, r, t) ==
    IF t - r.startTime >= r.delay
    THEN RunCallback(w, r, t)
    ELSE LET h == NewHandle(w)
         IN  [w EXCEPT !.queue = Append(@, [r EXCEPT !.h = h])]

\* animate(currentTime) of timer r.
animate(w, r, t) ==
    IF t - r.startTime >= r.delay
    THEN RunCallback(w, r, t)
    ELSE LET h == NewHandle(w)
         IN  SetRef([w EXCEPT !.queue = Append(@, [r EXCEPT !.h = h])],
                    r.ref, Some(h))

\* The callbacks pending at a frame, run in the order they were requested.
RECURSIVE RunFrame(_, _)
RunFrame(w, t) ==
    IF w.todo = <<>>
    THEN w
    ELSE RunFrame(animate([w EXCEPT !.todo = Tail(@)], Head(w.todo), t), t)

\* The cancel function createRAFTimer returned for a timer on ref.
cancelTimer(w, ref) == CancelRef(w, ref)

\* The world w becomes the state.
Becomes(w) ==
    /\ removeTimeoutRef' = w.removeTimeoutRef
    /\ mountTimerRef' = w.mountTimerRef
    /\ rafTimers' = w.queue
    /\ isVisible' = w.visible
    /\ onRemoveCalls' = w.calls
    /\ isPaused' = w.isPaused
    /\ startTimeRef' = w.startTimeRef
    /\ pausedTimeRef' = w.pausedTimeRef
    /\ wasPausedRef' = w.wasPausedRef
    /\ pauseCleanup' = w.pauseCleanup
    /\ timerObs' = w.obs

\* A frame is due and callbacks are pending: the browser runs them all.
TickTimers ==
    /\ now >= nextFrame
    /\ rafTimers # <<>>
    /\ Becomes(RunFrame([World EXCEPT !.todo = rafTimers, !.queue = <<>>], now))
    /\ nextFrame' = now + FramePeriod
    /\ UNCHANGED <<hookVars, providerVars, duration, toastId, now, mounted, obs>>

\* A frame is due and no callback is pending.
IdleFrameTimers ==
    /\ now >= nextFrame
    /\ rafTimers = <<>>
    /\ nextFrame' = now + FramePeriod
    /\ UNCHANGED <<hookVars, providerVars, timerVars, duration, toastId,
                   isVisible, now, mounted, onRemoveCalls, obs>>

\* The clock advances, never past a frame that is due.
AdvanceTimers ==
    /\ now < nextFrame
    /\ now + Quantum <= MaxNowTimers
    /\ now' = now + Quantum
    /\ UNCHANGED <<hookVars, providerVars, timerVars, duration, toastId,
                   isVisible, nextFrame, mounted, onRemoveCalls, obs>>

\* A client creates a timer.
CreateTimer ==
    /\ Len(timerObs.made) < MaxTimers
    /\ \E ref \in TimerRefs, delay \in TimerDelays :
          Becomes(createRAFTimer(World, delay, "callback", ref, now))
    /\ UNCHANGED <<hookVars, providerVars, duration, toastId, now, nextFrame,
                   mounted, obs>>

\* The pending timer of a ref, if any.
PendingOn(ref) ==
    {rafTimers[k].timer : k \in {j \in DOMAIN rafTimers : rafTimers[j].ref = ref}}

\* A client calls the cancel function it got for timer i.
CallCancel ==
    \E i \in DOMAIN timerObs.made :
        LET ref == timerObs.made[i].ref
            w == cancelTimer(World, ref)
        IN  /\ Becomes([w EXCEPT
                          !.obs.made[i].cancelled =
                              @ \/ timerObs.made[i].fired = 0,
                          !.obs.cancelledLater =
                              @ \/ \E j \in PendingOn(ref) :
                                      /\ j > i
                                      /\ j \notin {w.queue[k].timer : k \in DOMAIN w.queue}])
            /\ UNCHANGED <<hookVars, providerVars, duration, toastId, now,
                           nextFrame, mounted, obs>>

\* No hook is mounted: the other variables are parked.
InitRAFTimer ==
    /\ duration = 0
    /\ toastId = "toast-1"
    /\ isVisible = FALSE
    /\ phaseRef = "entering"
    /\ rafRef = Null
    /\ rafScheduled = {}
    /\ startRef = Null
    /\ elapsedRef = 0
    /\ exitStartRef = Null
    /\ removedRef = FALSE
    /\ now = 0
    /\ nextFrame \in {k * Quantum : k \in 1..FrameQuanta}
    /\ mounted = FALSE
    /\ onRemoveCalls = <<>>
    /\ obs = ObsInit
    /\ isPaused = FALSE
    /\ startTimeRef = 0
    /\ pausedTimeRef = 0
    /\ removeTimeoutRef = Null
    /\ mountTimerRef = Null
    /\ wasPausedRef = FALSE
    /\ pauseCleanup = FALSE
    /\ rafTimers = <<>>
    /\ timerObs = [TimerObsInit EXCEPT !.perTimer = TRUE]
    /\ ProviderInit

NextRAFTimer ==
    \/ CreateTimer
    \/ CallCancel
    \/ TickTimers
    \/ IdleFrameTimers
    \/ AdvanceTimers

SpecRAFTimer == InitRAFTimer /\ [][NextRAFTimer]_vars

\* ------------------------------------------------------------ the hook on timers
\* useToastAnimation built on createRAFTimer: a mount timer, and on
\* removeTimeoutRef the duration timer, the exit timer and the removal timer.

\* The mount effect and its cleanup.
mountEffect(w, t) == createRAFTimer(w, 0, "show", "mountTimerRef", t)

mountEffectCleanup(w, t) ==
    timerRemoveToast(cancelTimer(w, "mountTimerRef"), t)

\* The pause/resume effect, run at time t, and its cleanup.
pauseEffect(w, t) ==
    LET w1 == IF w.isPaused /\ ~w.wasPausedRef
              THEN [w EXCEPT !.pausedTimeRef = @ + (t - w.startTimeRef)]
              ELSE w
        timeLeft == duration - w1.pausedTimeRef
        w2 == IF ~w1.isPaused
              THEN IF timeLeft <= 0
                   THEN [startExitAnimation(w1, t) EXCEPT !.pauseCleanup = TRUE]
                   ELSE [createRAFTimer([w1 EXCEPT !.startTimeRef = t], timeLeft,
                                        "startExitAnimation", "removeTimeoutRef", t)
                           EXCEPT !.pauseCleanup = TRUE]
              ELSE [w1 EXCEPT !.pauseCleanup = FALSE]
    IN  [w2 EXCEPT !.wasPausedRef = w2.isPaused]

pauseEffectCleanup(w) ==
    IF w.pauseCleanup THEN cancelTimer(w, "removeTimeoutRef") ELSE w

\* setIsPaused(v): a change renders the component, which cleans the
\* pause/resume effect up and runs it again.
setIsPaused(w, v, t) ==
    IF w.isPaused = v
    THEN w
    ELSE pauseEffect([pauseEffectCleanup(w) EXCEPT !.isPaused = v], t)

\* The observation of an event that arrives after startExitAnimation was
\* first called.
AfterExit(w, event) ==
    IF w.obs.exitingSince # Null
    THEN [w EXCEPT !.obs.afterExit = @ \cup {event}]
    ELSE w

\* The pointer enters the element; the pauses of a run are counted and end
\* at MaxCycles.
HoverEnterTimers ==
    /\ mounted
    /\ isPaused \/ timerObs.pauses < MaxCycles
    /\ LET w == AfterExit(World, "enter")
       IN  Becomes(setIsPaused([w EXCEPT !.obs.pauses =
                                   IF isPaused THEN @ ELSE @ + 1],
                               TRUE, now))
    /\ UNCHANGED <<hookVars, providerVars, duration, toastId, now, nextFrame,
                   mounted, obs>>

HoverLeaveTimers ==
    /\ mounted
    /\ Becomes(setIsPaused(AfterExit(World, "leave"), FALSE, now))
    /\ UNCHANGED <<hookVars, providerVars, duration, toastId, now, nextFrame,
                   mounted, obs>>

\* handleClose: startExitAnimation().
CloseTimers ==
    /\ mounted
    /\ Becomes(startExitAnimation(AfterExit(World, "close"), now))
    /\ UNCHANGED <<hookVars, providerVars, duration, toastId, now, nextFrame,
                   mounted, obs>>

\* The owner renders the component again with a new onRemove function:
\* startExitAnimation is a new function, so the pause/resume effect is
\* cleaned up and run again.
RerenderTimers ==
    /\ mounted
    /\ Becomes(pauseEffect(pauseEffectCleanup(AfterExit(World, "render")), now))
    /\ UNCHANGED <<hookVars, providerVars, duration, toastId, now, nextFrame,
                   mounted, obs>>

\* The owner unmounts the component: the cleanups run in the order of the
\* effects.
UnmountTimers ==
    /\ mounted
    /\ mounted' = FALSE
    /\ Becomes(pauseEffectCleanup(mountEffectCleanup(World, now)))
    /\ obs' = [obs EXCEPT !.callsAtUnmount = Len(onRemoveCalls)]
    /\ UNCHANGED <<hookVars, providerVars, duration, toastId, now, nextFrame>>

\* The state after the first render and the first run of both effects.
InitTimerHook ==
    /\ duration \in {0, 200}
    /\ toastId = "toast-1"
    /\ phaseRef = "entering"
    /\ rafRef = Null
    /\ rafScheduled = {}
    /\ startRef = Null
    /\ elapsedRef = 0
    /\ exitStartRef = Null
    /\ removedRef = FALSE
    /\ now = 0
    /\ nextFrame \in {k * Quantum : k \in 1..FrameQuanta}
    /\ mounted = TRUE
    /\ obs = ObsInit
    /\ ProviderInit
    /\ LET w0 == [ removeTimeoutRef |-> Null, mountTimerRef |-> Null,
                   todo |-> <<>>, queue |-> <<>>, visible |-> FALSE,
                   calls |-> <<>>, isPaused |-> FALSE, startTimeRef |-> 0,
                   pausedTimeRef |-> 0, wasPausedRef |-> FALSE,
                   pauseCleanup |-> FALSE, obs |-> TimerObsInit ]
           w == pauseEffect(mountEffect(w0, 0), 0)
       IN  /\ removeTimeoutRef = w.removeTimeoutRef
           /\ mountTimerRef = w.mountTimerRef
           /\ rafTimers = w.queue
           /\ isVisible = w.visible
           /\ onRemoveCalls = w.calls
           /\ isPaused = w.isPaused
           /\ startTimeRef = w.startTimeRef
           /\ pausedTimeRef = w.pausedTimeRef
           /\ wasPausedRef = w.wasPausedRef
           /\ pauseCleanup = w.pauseCleanup
           /\ timerObs = w.obs

NextTimerHook ==
    \/ TickTimers
    \/ IdleFrameTimers
    \/ AdvanceTimers
    \/ HoverEnterTimers
    \/ HoverLeaveTimers
    \/ CloseTimers
    \/ RerenderTimers
    \/ UnmountTimers

SpecTimerHook == InitTimerHook /\ [][NextTimerHook]_vars

\* ------------------------------------------------------------ the hook with 0 for "none"
\* useToastAnimation of useToastPhase.ts:75-182 (and src/unnamed/part_001):
\* startRef and exitStartRef are numbers, and 0 stands for "not set".  It has
\* no removed flag; the loop stops after the onRemove call.

\* loop(now) with handle h: the phase is read once, at the start.
sentinelLoop(h, t) ==
    LET again == LET n == requestAnimationFrame((rafScheduled \ {h}) \cup Handles(rafRef) \cup {h})
                 IN  /\ rafRef' = Some(n)
                     /\ rafScheduled' = (rafScheduled \ {h}) \cup {n}
    IN  CASE phaseRef = "entering" ->
               /\ setPhase("running")
               /\ again
               /\ UNCHANGED <<startRef, exitStartRef, onRemoveCalls>>
          [] phaseRef = "running" ->
               LET start == IF startRef = 0 THEN t ELSE startRef
                   total == elapsedRef + (t - start)
               IN  /\ IF total >= duration
                      THEN /\ startRef' = 0
                           /\ exitStartRef' = t
                           /\ setPhase("exiting")
                      ELSE /\ startRef' = start
                           /\ UNCHANGED <<exitStartRef, phaseRef, isVisible>>
                   /\ again
                   /\ UNCHANGED onRemoveCalls
          [] phaseRef = "paused" ->
               /\ again
               /\ UNCHANGED <<phaseRef, isVisible, startRef, exitStartRef,
                              onRemoveCalls>>
          [] phaseRef = "exiting" ->
               LET exitStart == IF exitStartRef = 0 THEN t ELSE exitStartRef
               IN  /\ exitStartRef' = exitStart
                   /\ IF t - exitStart >= EXIT_ANIMATION_DURATION
                      THEN /\ onRemoveCalls' =
                                  Append(onRemoveCalls, [id |-> toastId, at |-> t])
                           /\ rafRef' = rafRef
                           /\ rafScheduled' = rafScheduled \ {h}
                      ELSE /\ again
                           /\ UNCHANGED onRemoveCalls
                   /\ UNCHANGED <<phaseRef, isVisible, startRef>>

TickSentinel ==
    /\ now >= nextFrame
    /\ \E h \in rafScheduled :
          /\ sentinelLoop(h, now)
          /\ obs' = ObsPhase(obs, phaseRef')
    /\ nextFrame' = now + FramePeriod
    /\ UNCHANGED <<timerVars, providerVars, duration, toastId, elapsedRef,
                   removedRef, now, mounted>>

\* handleMouseEnter: the segment is closed against startRef, set or not.
sentinelMouseEnter ==
    IF phaseRef # "running"
    THEN UNCHANGED <<phaseRef, startRef, elapsedRef>>
    ELSE /\ elapsedRef' = elapsedRef + (now - startRef)
         /\ startRef' = 0
         /\ phaseRef' = "paused"

sentinelClose ==
    IF phaseRef = "exiting"
    THEN UNCHANGED <<phaseRef, exitStartRef, isVisible>>
    ELSE /\ exitStartRef' = now
         /\ setPhase("exiting")

\* The pointer enters the element; the pauses of a run end at MaxCycles.
HoverEnterSentinel ==
    /\ mounted
    /\ phaseRef = "running" => obs.cycles < MaxCycles
    /\ sentinelMouseEnter
    /\ obs' = ObsEnter(obs)
    /\ UNCHANGED <<timerVars, providerVars, duration, toastId, isVisible, rafRef,
                   exitStartRef, removedRef, now, nextFrame, rafScheduled,
                   mounted, onRemoveCalls>>

CloseSentinel ==
    /\ mounted
    /\ sentinelClose
    /\ obs' = ObsClose(obs)
    /\ UNCHANGED <<timerVars, providerVars, duration, toastId, rafRef, startRef,
                   elapsedRef, removedRef, now, nextFrame, rafScheduled, mounted,
                   onRemoveCalls>>

\* The state after the first render and the run of the effect.
InitSentinel ==
    /\ duration \in {0, 200}
    /\ toastId = "toast-1"
    /\ isVisible = FALSE
    /\ phaseRef = "entering"
    /\ rafRef = Some(requestAnimationFrame({}))
    /\ rafScheduled = {requestAnimationFrame({})}
    /\ startRef = 0
    /\ elapsedRef = 0
    /\ exitStartRef = 0
    /\ removedRef = FALSE
    /\ now = 0
    /\ nextFrame \in {k * Quantum : k \in 1..FrameQuanta}
    /\ mounted = TRUE
    /\ onRemoveCalls = <<>>
    /\ obs = ObsInit
    /\ TimersInit
    /\ ProviderInit

NextSentinel ==
    \/ TickSentinel
    \/ IdleFrame
    \/ Advance
    \/ HoverEnterSentinel
    \/ HoverLeave
    \/ CloseSentinel
    \/ Unmount

SpecSentinel == InitSentinel /\ [][NextSentinel]_vars

\* ------------------------------------------------------------ ToastProvider
\* toasts is the state with every queued updater applied, in order;
\* renderedToasts is the value the closures of the last render hold.

Messages == {"saved", "failed"}
ToastTypes == {"success", "error"}

\* Date.now().toString()
DateNowString == ToString(dateNow)

\* toasts.find(t => t.message === message && t.type === type)
find(list, message, type) ==
    LET hits == {k \in DOMAIN list : list[k].message = message /\ list[k].type = type}
    IN  IF hits = {} THEN Null
        ELSE Some(list[CHOOSE k \in hits : \A j \in hits : k <= j])

\* prev.filter(toast => toast.id !== id)
RECURSIVE filterOut(_, _)
filterOut(list, id) ==
    IF list = <<>> THEN <<>>
    ELSE IF Head(list).id = id
         THEN filterOut(Tail(list), id)
         ELSE <<Head(list)>> \o filterOut(Tail(list), id)

\* addToast: the duplicate is looked up in the render's list, the updaters
\* work on the present one.
addToast(message, type) ==
    LET existingToast == find(renderedToasts, message, type)
    IN  IF existingToast # Null
        THEN toasts' = [k \in DOMAIN toasts |->
                          IF toasts[k].id = Val(existingToast).id
                          THEN [toasts[k] EXCEPT !.id = DateNowString]
                          ELSE toasts[k]]
        ELSE toasts' = Append(toasts,
                          [message |-> message, type |-> type, id |-> DateNowString])

removeToast(id) == toasts' = filterOut(toasts, id)

AddToast ==
    /\ Len(toasts) < MaxToasts
    /\ \E message \in Messages, type \in ToastTypes : addToast(message, type)
    /\ UNCHANGED <<hookVars, timerVars, renderedToasts, dateNow, duration,
                   toastId, isVisible, now, nextFrame, mounted, onRemoveCalls, obs>>

\* removeToast with the id of a toast some render has shown.
RemoveToast ==
    /\ \E k \in DOMAIN renderedToasts : removeToast(renderedToasts[k].id)
    /\ UNCHANGED <<hookVars, timerVars, renderedToasts, dateNow, duration,
                   toastId, isVisible, now, nextFrame, mounted, onRemoveCalls, obs>>

\* The provider renders with the state the updaters left.
RenderProvider ==
    /\ renderedToasts # toasts
    /\ renderedToasts' = toasts
    /\ UNCHANGED <<hookVars, timerVars, toasts, dateNow, duration, toastId,
                   isVisible, now, nextFrame, mounted, onRemoveCalls, obs>>

\* A millisecond passes.
AdvanceDateNow ==
    /\ dateNow < MaxDateNow
    /\ dateNow' = dateNow + 1
    /\ UNCHANGED <<hookVars, timerVars, toasts, renderedToasts, duration, toastId,
                   isVisible, now, nextFrame, mounted, onRemoveCalls, obs>>

InitProvider ==
    /\ duration = 0
    /\ toastId = "toast-1"
    /\ isVisible = FALSE
    /\ phaseRef = "entering"
    /\ rafRef = Null
    /\ rafScheduled = {}
    /\ startRef = Null
    /\ elapsedRef = 0
    /\ exitStartRef = Null
    /\ removedRef = FALSE
    /\ now = 0
    /\ nextFrame = 0
    /\ mounted = FALSE
    /\ onRemoveCalls = <<>>
    /\ obs = ObsInit
    /\ TimersInit
    /\ ProviderInit

NextProvider ==
    \/ AddToast
    \/ RemoveToast
    \/ RenderProvider
    \/ AdvanceDateNow

SpecProvider == InitProvider /\ [][NextProvider]_vars

\* ------------------------------------------------------------ useToastTimer alone
\* The functions of useToastTimer called in any order as the clock runs.

pauseTimer ==
    IF startRef # Null
    THEN /\ elapsedRef' = elapsedRef + (now - Val(startRef))
         /\ startRef' = Null
    ELSE UNCHANGED <<startRef, elapsedRef>>

ObsTimerCall(kind) == obs' = [obs EXCEPT !.timerCalls = @ \cup {kind}]

CallStartTimer ==
    /\ startRef' = startTimer(startRef, now)
    /\ ObsTimerCall(IF startRef = Null THEN "start" ELSE "startTracked")
    /\ UNCHANGED <<timerVars, providerVars, duration, toastId, isVisible,
                   phaseRef, rafRef, elapsedRef, exitStartRef, removedRef, now,
                   nextFrame, rafScheduled, mounted, onRemoveCalls>>

CallPauseTimer ==
    /\ pauseTimer
    /\ ObsTimerCall(IF startRef = Null THEN "pauseUntracked" ELSE "pause")
    /\ UNCHANGED <<timerVars, providerVars, duration, toastId, isVisible,
                   phaseRef, rafRef, exitStartRef, removedRef, now, nextFrame,
                   rafScheduled, mounted, onRemoveCalls>>

CallIsTimerExpired ==
    /\ ObsTimerCall(IF isTimerExpired(startRef, now) THEN "expired" ELSE "notExpired")
    /\ UNCHANGED <<hookVars, timerVars, providerVars, duration, toastId,
                   isVisible, now, nextFrame, mounted, onRemoveCalls>>

AdvanceToastTimer ==
    /\ now + Quantum <= MaxNowTimers
    /\ now' = now + Quantum
    /\ UNCHANGED <<hookVars, timerVars, providerVars, duration, toastId,
                   isVisible, nextFrame, mounted, onRemoveCalls, obs>>

\* The refs as useToastTimer creates them, for every duration.
InitToastTimer ==
    /\ duration \in Durations
    /\ toastId = "toast-1"
    /\ isVisible = FALSE
    /\ phaseRef = "entering"
    /\ rafRef = Null
    /\ rafScheduled = {}
    /\ startRef = Null
    /\ elapsedRef = 0
    /\ exitStartRef = Null
    /\ removedRef = FALSE
    /\ now = 0
    /\ nextFrame = 0
    /\ mounted = TRUE
    /\ onRemoveCalls = <<>>
    /\ obs = ObsInit
    /\ TimersInit
    /\ ProviderInit

NextToastTimer ==
    \/ CallStartTimer
    \/ CallPauseTimer
    \/ CallIsTimerExpired
    \/ AdvanceToastTimer

SpecToastTimer == InitToastTimer /\ [][NextToastTimer]_vars

\* ------------------------------------------------------------ properties

Removed == Len(onRemoveCalls) >= 1
RemovedAt == onRemoveCalls[1].at

\* No hover event had an effect and no manual close was accepted.
NoInteraction == obs.cycles = 0 /\ obs.closeAt = Null

\* The active time the hook accounts for at the present clock.
Accounted ==
    elapsedRef + (IF startRef = Null THEN 0 ELSE now - Val(startRef))

\* C1: onRemove is invoked at most once, and with the toastId the instance
\* was constructed with, whatever the ticks, hover and close events.
C1_RemoveAtMostOnceWithId ==
    /\ Len(onRemoveCalls) <= 1
    /\ \A i \in DOMAIN onRemoveCalls : onRemoveCalls[i].id = toastId

\* C1 witness: the one call has been made after repeated hover cycling.
C1_Witness ==
    /\ Len(onRemoveCalls) = 1
    /\ obs.cycles >= 2

\* C2: once the owner has unmounted the instance, onRemove is not invoked:
\* neither by the unmount nor at any later time.
C2_NoRemoveAfterUnmount ==
    ~mounted => Len(onRemoveCalls) = obs.callsAtUnmount

\* C2 witness: unmounted while running, before any removal, and the clock is
\* beyond duration + exit window + a frame after the unmount.
C2_Witness ==
    /\ ~mounted
    /\ onRemoveCalls = <<>>
    /\ phaseRef = "running"
    /\ startRef # Null
    /\ duration > 0
    /\ now >= Val(obs.unmountedAt) + duration + EXIT_ANIMATION_DURATION + FramePeriod

\* C3: every onRemove call comes at least EXIT_ANIMATION_DURATION after the
\* phase became "exiting" (by expiry or by manual close).
C3_RemoveOnlyAfterExitWindow ==
    \A i \in DOMAIN onRemoveCalls :
        /\ obs.exitingSince # Null
        /\ onRemoveCalls[i].at - Val(obs.exitingSince) >= EXIT_ANIMATION_DURATION

\* C3 witness: removed after an expiry of the duration.
C3_Witness ==
    /\ Removed
    /\ obs.closeAt = Null
    /\ duration > 0

\* C4: with duration > 0 and no interaction, onRemove is not invoked before
\* duration + 300 ms since mount (the mount is at time 0), never twice, and
\* it has been invoked once the frames of the entering phase, of the expiry
\* and of the exit window have passed.
C4_NoHoverNotBeforeDurationPlusExit ==
    (duration > 0 /\ NoInteraction) =>
        /\ \A i \in DOMAIN onRemoveCalls :
               onRemoveCalls[i].at >= duration + EXIT_ANIMATION_DURATION
        /\ Len(onRemoveCalls) <= 1
        /\ (mounted /\ now >= duration + EXIT_ANIMATION_DURATION + 4 * FramePeriod)
               => Len(onRemoveCalls) = 1

\* C4 witness: a toast with a positive duration removed with no interaction.
C4_Witness ==
    /\ duration > 0
    /\ NoInteraction
    /\ Len(onRemoveCalls) = 1

\* C5 (the claim as stated): with no interaction, onRemove has been invoked
\* by the first frame at or after duration + 300 ms since mount.
C5_RemovedAtDurationPlusExit ==
    (/\ duration > 0
     /\ NoInteraction
     /\ mounted
     /\ now >= duration + EXIT_ANIMATION_DURATION + FramePeriod)
        => Removed

\* C6 (the claim as stated): after hover pauses and without a manual close,
\* the time from mount to the onRemove call is the paused time + duration +
\* 300 ms, to one frame.
C6_RemovalTimeIsPausedPlusDurationPlusExit ==
    (duration > 0 /\ obs.cycles >= 1 /\ obs.closeAt = Null /\ Removed) =>
        (RemovedAt - (obs.pausedTotal + duration + EXIT_ANIMATION_DURATION))
            \in 0..FramePeriod

\* C7 (the claim as stated): while the mounted instance is running or
\* paused, the accounted active time is the clock time spent running, to one
\* frame, however many pause/resume cycles there were.
C7_AccountedIsRunningTime ==
    (mounted /\ phaseRef \in {"running", "paused"}) =>
        (obs.runningTotal - Accounted) \in 0..FramePeriod

\* C8: an accepted manual close starts the exit window at the time of the
\* close; onRemove is not invoked before 300 ms after the close and is
\* invoked by the first frame at or after it, whatever the remaining
\* duration and the later hover events.
C8_CloseRemovesAfterExitWindow ==
    obs.closeAt # Null =>
        /\ phaseRef = "exiting"
        /\ exitStartRef = obs.closeAt
        /\ \A i \in DOMAIN onRemoveCalls :
              /\ onRemoveCalls[i].at >= Val(obs.closeAt) + EXIT_ANIMATION_DURATION
              /\ onRemoveCalls[i].at <
                     Val(obs.closeAt) + EXIT_ANIMATION_DURATION + FramePeriod
        /\ (mounted /\ now >= Val(obs.closeAt) + EXIT_ANIMATION_DURATION + FramePeriod)
               => Len(onRemoveCalls) = 1

\* C8 witness: closed while paused, with duration left, and then removed.
C8_Witness ==
    /\ obs.closeFrom = Some("paused")
    /\ duration > 0
    /\ obs.runningTotal < duration
    /\ Len(onRemoveCalls) = 1

\* C9 (the claim as stated): with duration <= 0 and no interaction, onRemove
\* is not invoked before 300 ms since mount and has been invoked by the
\* first frame at or after 300 ms.
C9_NonPositiveDurationRemovedAtExitWindow ==
    (duration <= 0 /\ NoInteraction) =>
        /\ \A i \in DOMAIN onRemoveCalls :
               onRemoveCalls[i].at >= EXIT_ANIMATION_DURATION
        /\ (mounted /\ now >= EXIT_ANIMATION_DURATION + FramePeriod) => Removed

\* C10 (the claim as stated): no hover-enter that arrives while the phase is
\* "running" is ignored.
C10_HoverEnterInRunningPauses ==
    ~obs.enterDropped

\* C11: while the phase is "paused" no step changes the accumulated elapsed
\* time, and the only step from "paused" to "exiting" is the accepted manual
\* close, however long the pause lasts.
C11_PausedFrozenUntilClose ==
    [][phaseRef = "paused" =>
          /\ elapsedRef' = elapsedRef
          /\ phaseRef' = "exiting" =>
                (obs.closeAt = Null /\ obs'.closeAt = Some(now))]_vars

\* C11 witness: paused for longer than the remaining duration, with frames
\* having run during the pause.
C11_Witness ==
    /\ mounted
    /\ phaseRef = "paused"
    /\ duration > 0
    /\ obs.pausedTotal > duration - elapsedRef
    /\ obs.pausedTotal >= 2 * FramePeriod

\* C12: once the phase is "exiting" no step makes it "running" or "paused"
\* again or moves the start of the exit window, and a mounted toast has been
\* removed by the first frame after the 300 ms window, whatever hover events
\* arrived in between.
C12_ExitingIsFinal ==
    /\ [](( /\ mounted
            /\ phaseRef = "exiting"
            /\ obs.exitingSince # Null
            /\ now >= Val(obs.exitingSince) + EXIT_ANIMATION_DURATION + FramePeriod)
              => Removed)
    /\ [][phaseRef = "exiting" =>
              /\ phaseRef' = "exiting"
              /\ exitStartRef' = exitStartRef]_vars

\* C12 witness: the exit window has passed, a hover-enter was ignored while
\* exiting, and the removal is due.
C12_Witness ==
    /\ mounted
    /\ phaseRef = "exiting"
    /\ ~removedRef
    /\ obs.lastIgnored = Some([ev |-> "enter", phase |-> "exiting"])
    /\ now - Val(exitStartRef) >= EXIT_ANIMATION_DURATION

\* The phase of the machine: "removed" once the removed flag is set.
PhaseOf == IF removedRef THEN "removed" ELSE phaseRef

MachineEdges ==
    { <<"entering", "running">>, <<"running", "paused">>,
      <<"paused", "running">>, <<"running", "exiting">>,
      <<"paused", "exiting">>, <<"exiting", "removed">> }

\* C13 (the claim as stated): every change of phase follows an edge of
\* entering -> running, running -> paused, paused -> running,
\* running -> exiting, paused -> exiting, exiting -> removed.
C13_OnlyMachineEdges ==
    [][PhaseOf' # PhaseOf => <<PhaseOf, PhaseOf'>> \in MachineEdges]_vars

\* C13 (amended): every change of phase follows one of those edges or is the
\* edge entering -> exiting taken by an accepted manual close.
C13_MachineEdgesOrCloseWhileEntering ==
    [][PhaseOf' # PhaseOf =>
          \/ <<PhaseOf, PhaseOf'>> \in MachineEdges
          \/ /\ PhaseOf = "entering"
             /\ PhaseOf' = "exiting"
             /\ obs.closeAt = Null
             /\ obs'.closeAt = Some(now)]_vars

\* C13 witness: a toast closed while entering has gone on to be removed.
C13_Witness ==
    /\ obs.closeFrom = Some("entering")
    /\ PhaseOf = "removed"

\* C14: the exit-start timestamp is unset before the phase is "exiting", set
\* while it is, and equal to the time of the one transition into "exiting",
\* whatever closes arrive while exiting or after the removal.
C14_ExitStartSetOnce ==
    /\ exitStartRef = obs.exitingSince
    /\ phaseRef = "exiting" <=> exitStartRef # Null

\* C14 witness: a close was ignored while exiting and the window has been
\* running since.
C14_Witness ==
    /\ phaseRef = "exiting"
    /\ obs.lastIgnored = Some([ev |-> "close", phase |-> "exiting"])
    /\ now > Val(exitStartRef)

\* C16: the constructed instance is "entering", not visible and has the exit
\* class; the frame that finds it "entering" leaves it "running", visible
\* and with the enter class.
C16_FirstTickShows ==
    /\ (phaseRef = "entering" /\ ~isVisible /\ ClassName = "toast-exit")
    /\ [][(phaseRef = "entering" /\ Tick) =>
              /\ phaseRef' = "running"
              /\ isVisible'
              /\ ClassName' = "toast-enter"]_vars

\* C16 witness: the state the first frame leaves, before any later frame.
C16_Witness ==
    /\ phaseRef = "running"
    /\ isVisible
    /\ ClassName = "toast-enter"
    /\ startRef = Null
    /\ obs.cycles = 0
    /\ obs.runningTotal = 0

\* C17: a hover-enter in a phase other than "running" and a hover-leave in a
\* phase other than "paused" leave the phase, the accumulated elapsed time,
\* the running-segment start, the exit start, the visibility and the removed
\* flag as they were.
C17_IllegalHoverIgnored ==
    [][( \/ (phaseRef # "running" /\ HoverEnterSeen)
         \/ (phaseRef # "paused" /\ HoverLeaveSeen) )
          => UNCHANGED <<phaseRef, elapsedRef, startRef, exitStartRef,
                         isVisible, removedRef>>]_vars

\* C17 witness: a hover-leave was ignored in a running segment that follows
\* a pause.
C17_Witness ==
    /\ obs.lastIgnored = Some([ev |-> "leave", phase |-> "running"])
    /\ phaseRef = "running"
    /\ startRef # Null
    /\ elapsedRef > 0

\* C19: the toast is visible exactly when the phase is "running" or
\* "paused"; it is hidden while entering, while exiting and after removal.
C19_VisibleIffRunningOrPaused ==
    /\ isVisible <=> phaseRef \in {"running", "paused"}
    /\ removedRef => ~isVisible

\* C19 witness: hidden in the middle of the exit window, before the removal.
C19_Witness ==
    /\ phaseRef = "exiting"
    /\ ~isVisible
    /\ ~removedRef
    /\ now > Val(exitStartRef)
    /\ now < Val(exitStartRef) + EXIT_ANIMATION_DURATION

\* C18 (the claim as stated): with an undefined duration and no
\* interaction, onRemove is not invoked at 2999 ms or 3000 ms since mount
\* and has been invoked by the first frame at or after 3300 ms.
C18_DefaultDurationRemovedAt3300 ==
    /\ duration = DEFAULT_DURATION
    /\ (now <= DEFAULT_DURATION => ~Removed)
    /\ (now >= DEFAULT_DURATION + EXIT_ANIMATION_DURATION + FramePeriod) => Removed

\* C15 (the claim as stated): if frames keep occurring, the instance is never
\* unmounted and the phase is not "paused" forever, onRemove is eventually
\* invoked, for every duration.
C15_EventuallyRemoved ==
    ([]mounted /\ []<>(phaseRef # "paused")) => <>Removed

\* C20 (the claim as stated): in the composed hook a teardown stops the
\* loop: after it no callback is pending and onRemove is not invoked.
C20_TeardownStopsComposedLoop ==
    ~mounted =>
        /\ rafScheduled = {}
        /\ Len(onRemoveCalls) <= obs.callsAtUnmount

\* A timer whose ref no other timer was created on.
OwnRef(i) ==
    \A j \in DOMAIN timerObs.made :
        j # i => timerObs.made[j].ref # timerObs.made[i].ref

\* C24: the callback of a timer that has its ref to itself runs at most once,
\* never at a frame less than delay ms after the creation, and never after
\* its cancel function was called before it ran.
C24_OwnRefTimerFiresOnceAfterDelay ==
    \A i \in DOMAIN timerObs.made :
        OwnRef(i) =>
            LET m == timerObs.made[i]
            IN  /\ m.fired <= 1
                /\ ~m.early
                /\ ~m.firedAfterCancel

\* C24 witness: one timer with its own ref has fired after several frames,
\* another with its own ref was cancelled in time, and nothing is pending.
C24_Witness ==
    \E i, j \in DOMAIN timerObs.made :
        /\ OwnRef(i) /\ OwnRef(j)
        /\ timerObs.made[i].fired = 1
        /\ timerObs.made[i].delay > FramePeriod
        /\ timerObs.made[j].cancelled
        /\ timerObs.made[j].fired = 0
        /\ rafTimers = <<>>

\* C25 (the claim as stated): at most one timer is pending on a ref, and no
\* cancel function has cancelled a timer created later than its own.
C25_OnePendingAndCancelOwnOnly ==
    /\ \A ref \in TimerRefs : Cardinality(PendingOn(ref)) <= 1
    /\ Len(rafTimers) <= Cardinality(TimerRefs)
    /\ ~timerObs.cancelledLater

\* C21 (the claim as stated): in the hook on timers, once the instance is
\* unmounted no removal timer is pending and onRemove is invoked no more.
C21_NoRemoveAfterTimerUnmount ==
    ~mounted =>
        /\ \A k \in DOMAIN rafTimers : rafTimers[k].callback # "onRemove"
        /\ Len(onRemoveCalls) = obs.callsAtUnmount

\* C22 (the claim as stated): in the hook on timers, once the exit animation
\* has been started and only hover events arrive afterwards, onRemove has
\* been invoked by the second frame after the 300 ms (one frame for the
\* start of the animation, one for the removal).
C22_HoverDoesNotStopRemoval ==
    ( /\ mounted
      /\ timerObs.exitingSince # Null
      /\ timerObs.afterExit \subseteq {"enter", "leave"}
      /\ now >= Val(timerObs.exitingSince) + EXIT_ANIMATION_DURATION
                   + 2 * FramePeriod )
        => Removed

\* C23 (the claim as stated): in the hook with 0 for "none", the accumulated
\* elapsed time never exceeds the clock time spent in "running", and an
\* expiry of the duration comes only after duration ms of "running".
C23_ElapsedWithinRunningTime ==
    /\ elapsedRef <= obs.runningTotal
    /\ (phaseRef = "exiting" /\ obs.closeAt = Null) => obs.runningTotal >= duration

SameContent(a, b) == a.message = b.message /\ a.type = b.type

\* C26 (the claim as stated): the provider's list never holds two toasts of
\* the same message and type.
C26_NoDuplicateToasts ==
    \A j, k \in DOMAIN toasts : SameContent(toasts[j], toasts[k]) => j = k

\* C27 (the claim as stated): the toasts of the provider's list have pairwise
\* distinct ids.
C27_DistinctIds ==
    \A j, k \in DOMAIN toasts : toasts[j].id = toasts[k].id => j = k

\* The time left on the running timer, as the claim writes it.
TimeLeft ==
    duration - (elapsedRef + (IF startRef # Null THEN now - Val(startRef) ELSE 0))

\* C28: isTimerExpired(now) is true exactly when the time left is at most 0;
\* startTimer(now) records now as the start only when none is tracked and
\* leaves a tracked one; pauseTimer adds the segment's length to the elapsed
\* time and clears the start, and changes nothing when no segment is tracked.
C28_TimerFunctions ==
    /\ [](isTimerExpired(startRef, now) <=> TimeLeft <= 0)
    /\ [][ /\ (startRef = Null /\ startRef' # Null) =>
                 (startRef' = Some(now) /\ elapsedRef' = elapsedRef)
           /\ (startRef # Null /\ startRef' # Null) =>
                 (startRef' = startRef /\ elapsedRef' = elapsedRef)
           /\ (startRef # Null /\ startRef' = Null) =>
                 elapsedRef' = elapsedRef + (now - Val(startRef))
           /\ (startRef = Null /\ startRef' = Null) =>
                 elapsedRef' = elapsedRef ]_vars

\* Every kind of call has been made, and a segment of some length was added.
C28_Witness ==
    /\ obs.timerCalls = {"start", "startTracked", "pause", "pauseUntracked",
                         "expired", "notExpired"}
    /\ elapsedRef > 0
    /\ startRef # Null
    /\ now > Val(startRef)

====
